---- MODULE Spec2Model ----
(***************************************************************************)
(* fastsend: the pre-allocated Block dispenser.                            *)
(*                                                                         *)
(*   BlockFrame  (src/src/block/mod.rs)  cursor cell, bounded queue of     *)
(*               Blocks, `state` flag guarding the supply (refill) closure *)
(*   BlockFuture (src/src/block/mod.rs)  poll: pop, or spawn a supply      *)
(*               thread carrying the task's waker and return Pending       *)
(*   next_token / with_block (src/src/lib.rs)  the thread-local BLOCK      *)
(*                                                                         *)
(* A poll of a task is one synchronous run on one worker thread, so it is  *)
(* one action.  The supply closure runs on its own OS thread, so each of   *)
(* its shared-memory operations is one action.                             *)
(*                                                                         *)
(*   Spec          the dispenser on a multi-thread runtime                 *)
(*   LiveSpec      the same on the current-thread runtime, fair            *)
(*   DropSpec      callers may drop a pending next_token() future          *)
(*   DropLiveSpec  one caller may drop, fair                               *)
(*   OverflowSpec  the process started one second before Cursor(u32::MAX)  *)
(*   StartSpec     Spec for both builds, with and without pause_on_start   *)
(*   UnitSpec      Block as an Iterator and Cursor::new called directly    *)
(*   IdSpec        Token::construct_block and Token::id called directly    *)
(*   SerialSpec    TimeSerialer::build, concurrent, with its clean-up thread *)
(*   TicketSpec    TicketSerialer::build against an external inspect       *)
(*   IncrSpec      IncrState::incr from several threads, and the build of  *)
(*                 each IncrSerialer                                       *)
(*   ClockSpec     Cursor::new from an uninitialised process, the wall     *)
(*                 clock jumping                                           *)
(***************************************************************************)
EXTENDS Integers, Sequences, FiniteSets, TLC

\* ---- bounds ------------------------------------------------------------
NTasks      == 3    \* async tasks, each awaiting next_token() once
NThreads    == 2    \* runtime worker threads, each with its own BLOCK
MaxClock    == 2    \* last clock reading (seconds) the model reaches
ELEMENT_CAP == 4    \* BlockFrame::ELEMENT_CAP, scaled down
SIZE        == 2    \* Block::SIZE, scaled down
U32_MAX     == 255  \* u32::MAX, scaled down
NBuilds     == 3    \* TimeSerialers built, each once
MaxSecond   == 1    \* seconds the wall clock advances while they are built
GLOBAL_SLOT_SIZE == 1   \* TimeSerialer::GLOBAL_SLOT_SIZE, scaled down
NTickets    == 1    \* TicketSerialers built, each once
MaxRetryTimes == 3  \* largest `retry_times(n)` set by hand
NCalls      == 2    \* calls of IncrState::incr, from as many threads
MaxIdent    == 2    \* largest value the AutoIncrement engine returns

\* BlockFrame::QUEUE_SIZE = ELEMENT_CAP / Block::SIZE
QUEUE_SIZE == ELEMENT_CAP \div SIZE

\* `n as u16`, `i as u16`: the ident number is computed in 16 bits.
\* `ELEMENT_CAP = u16::MAX as usize + 1`: the scaled u16 has ELEMENT_CAP values
U16 == ELEMENT_CAP

\* u8: the bytes of to_be_bytes / from_be_bytes
U8 == 256

\* Cursor(u32): the 2^32 values of the type, U32_MAX standing for u32::MAX
U32 == U32_MAX + 1

Tasks   == 1..NTasks
Builds  == 1..NBuilds
Tickets == 1..NTickets
Calls   == 1..NCalls
Threads == 1..NThreads
\* Supply threads.  A task is polled again only after its waker was woken, so
\* at most one live supply thread carries the waker of task t: it is helper[t].
\* A thread that has taken and woken its waker but is still in its enqueue
\* loop is the holder of `state`: it is helper[Runner].
Runner == 0
Helpers == {Runner} \cup Tasks

VARIABLES
    wall,       \* SystemTime::now(): seconds since UNIX_EPOCH, < 0 before it
    TIMESTAMP,  \* Cursor::new's lazy static: seconds past TIMEBASE at bootstrap
    clock,      \* START.elapsed().as_secs()
    cursor,     \* BlockFrame.cursor
    queue,      \* BlockFrame.queue (ArrayQueue, FIFO)
    state,      \* BlockFrame.state
    BLOCK,      \* thread_local BLOCK: <<>> is None, <<b>> is Some(b)
    borrow,     \* RefCell flag of each BLOCK: 0 free, n > 0 shared, -1 mutable
    holds,      \* the BLOCK cell a suspended task keeps a guard on (0: none)
    pc,         \* task: "idle" (not polled yet) | "pending" | "woken" | "done"
    helper,     \* supply threads (one record per spawned closure call)
    panic,      \* "none" | "drained" | "borrow"
    delivered,  \* history: the Tokens returned by next_token()
    ndelivered, \* history: how many Tokens were returned
    refills,    \* history: the cursor of every refill, in order
    it,         \* a Block used directly as an Iterator
    item,       \* what the last `it.next()` returned: <<>> is None
    made,       \* what the last direct Cursor::new() returned: <<>> is nothing
    ided,       \* the last two Tokens constructed directly, with their id()
    SLOT,       \* TimeSerialer's global map: a set of <<serial, timestamp>>
    build,      \* the future of each TimeSerialer::build
    cleaners,   \* clean-up threads spawned and not yet run
    ticket,     \* the future of each TicketSerialer::build
    engine,     \* IncrState.engine: the Mutex (holder, poisoned)
    last,       \* IncrState.last
    COUNTER,    \* auto_increment's lazy static COUNTER (IncrState.suffix)
    incr,       \* each call of IncrState::incr and the IncrSerialer it makes
    granted     \* history: the calls in the order they took the engine lock

vars == <<wall, TIMESTAMP, clock, cursor, queue, state, BLOCK, borrow, holds, pc,
          helper, panic, delivered, ndelivered, refills, it, item, made,
          ided, SLOT, build, cleaners, ticket, engine, last, COUNTER, incr,
          granted>>

\* what the dispenser never writes
SerialVars == <<SLOT, build, cleaners>>
IncrVars == <<engine, last, COUNTER, incr, granted>>
FixedVars == <<wall, TIMESTAMP, it, item, made, ided, SerialVars, ticket, IncrVars>>

\* ---- Cursor ------------------------------------------------------------
\* Cursor::TIMEBASE, line 236
TIMEBASE == 1639110453

\* TIMESTAMP (and START, FRAME) before its first use: lazy_static
Unset == 0 - 1

\* TIMESTAMP's initialiser with `timestamp as u32` and no test of the range
TimestampInitUnchecked(w) == w < 0

\* TIMESTAMP's initialiser panics (lines 249-262): the wall clock is before
\* UNIX_EPOCH; or before TIMEBASE, where the u64 subtraction of line 258
\* panics (overflow checks on) or wraps to a value over u32::MAX that line
\* 260 refuses; or more than u32::MAX seconds past TIMEBASE
TimestampInitPanics(w) == w < 0 \/ w < TIMEBASE \/ w - TIMEBASE > U32_MAX

\* TIMESTAMP's initialiser when it returns: `timestamp as u32`
TimestampInit(w) == (w - TIMEBASE) % U32

\* Cursor::new with wrapping_add for checked_add: only `elapsed` is checked
CursorNewWraps == clock > U32_MAX

\* Cursor::new panics: `elapsed > u32::MAX`, or checked_add returns None
CursorNewOverflows == clock > U32_MAX \/ TIMESTAMP + (clock % U32) > U32_MAX

\* Cursor::new that reads the wall clock at every call
CursorNewFromWall == (wall - TIMEBASE) % U32

\* Cursor::new when it returns: Cursor(TIMESTAMP + elapsed as u32)
CursorNew == (TIMESTAMP + (clock % U32)) % U32

\* Cursor::next: `if next > self { return next }`
CursorNextReturnsEq(self, reading) == reading >= self
CursorNextReturns(self, reading) == reading > self

\* ---- Token, Block ------------------------------------------------------
IdentNew(n) == n
TokenNew(c, ident) == [cursor |-> c, ident |-> ident]

\* Block::new with the progress starting at the second slot
BlockNewFromOne(array) == [index |-> 1, array |-> array]

\* Block::new: `Block { index: 0, array }`
BlockNew(array) == [index |-> 0, array |-> array]

\* Token::construct_block with `Ident::new(n + offset)`
construct_block_sum(n, c) ==
    BlockNew([i \in 0..(SIZE - 1) |->
                TokenNew(c, IdentNew(((n % U16) + i) % U16))])

construct_block(n, c) ==
    BlockNew([i \in 0..(SIZE - 1) |->
                TokenNew(c, IdentNew(((n % U16) * SIZE + i) % U16))])

\* u16::to_be_bytes, u32::to_be_bytes, u32::from_be_bytes
to_be_bytes2(x) == <<(x \div U8) % U8, x % U8>>
to_be_bytes4(x) ==
    <<(x \div (U8 * U8 * U8)) % U8, (x \div (U8 * U8)) % U8, (x \div U8) % U8, x % U8>>
from_be_bytes4(b) == ((b[1] * U8 + b[2]) * U8 + b[3]) * U8 + b[4]

\* Ident::new and Ident::construct: a, b are the bytes of the u16 number,
\* cd = <<c, d>> is what cd() returned on the constructing thread
IdentConstruct(ident, cd) == from_be_bytes4(to_be_bytes2(ident) \o cd)

\* Token::id: Guard::set fills the 8 bytes in order and ignores any further
\* byte.  The u64 of u64::from_be_bytes is kept as its two 32-bit halves.
TokenId(token, cd) ==
    LET fed == to_be_bytes4(token.cursor) \o to_be_bytes4(IdentConstruct(token.ident, cd))
        bytes == SubSeq(fed, 1, 8)
    IN <<from_be_bytes4(SubSeq(bytes, 1, 4)), from_be_bytes4(SubSeq(bytes, 5, 8))>>

size_hint(b) == SIZE - b.index

\* <Block as Iterator>::next with `self.index += 1` ahead of the test
BlockNextCountsOn(b) ==
    IF b.index >= SIZE
    THEN [item |-> <<>>, block |-> [b EXCEPT !.index = @ + 1]]
    ELSE [item |-> <<b.array[b.index]>>, block |-> [b EXCEPT !.index = @ + 1]]

\* <Block as Iterator>::next: <<>> is None, <<item>> is Some(item)
BlockNext(b) ==
    IF b.index >= SIZE
    THEN [item |-> <<>>, block |-> b]
    ELSE [item |-> <<b.array[b.index]>>, block |-> [b EXCEPT !.index = @ + 1]]

\* `block.collect()`: next() until it returns None, the items in order
RECURSIVE TakeAll(_)
TakeAll(b) ==
    LET r == BlockNext(b) IN
    IF r.item = <<>> THEN <<>> ELSE r.item \o TakeAll(r.block)

\* ---- supply threads ----------------------------------------------------
IdleHelper == [pc |-> "idle", waker |-> 0, prev |-> 0, next |-> 0,
               seq |-> <<>>, n |-> 0, out |-> <<>>, failed |-> FALSE,
               won |-> FALSE, wakes |-> 0]

Free(h) == helper[h].pc = "idle"

\* Waker::wake_by_ref: a suspended task is scheduled again; for a task whose
\* future is gone the call is only recorded
Wake(tp, w) ==
    IF w # 0 /\ tp[w] = "pending" THEN [tp EXCEPT ![w] = "woken"]
    ELSE IF w # 0 /\ tp[w] = "dropped" THEN [tp EXCEPT ![w] = "droppedWoken"]
    ELSE tp

Perms == {s \in [1..QUEUE_SIZE -> 0..(QUEUE_SIZE - 1)] :
            \A i, j \in 1..QUEUE_SIZE : s[i] = s[j] => i = j}

TypeOK ==
    /\ TIMESTAMP \in {Unset} \cup 0..U32_MAX
    /\ clock \in 0..MaxClock
    /\ cursor # Unset => cursor \in TIMESTAMP..U32_MAX
    /\ cursor # Unset => TIMESTAMP # Unset /\ cursor <= TIMESTAMP + clock
    /\ Len(queue) <= QUEUE_SIZE
    /\ state \in BOOLEAN
    /\ pc \in [Tasks -> {"idle", "pending", "woken", "done", "dropped",
                         "droppedWoken"}]
    /\ panic \in {"none", "drained", "borrow", "overflow", "bootstrap"}
    /\ \A h \in Helpers : helper[h].pc \in
          {"idle", "cas", "load", "next", "cascur", "shuffle", "push", "wake1",
           "store", "wake", "panicked"}
    \* the slots of the supply threads are never short
    /\ \A t \in Tasks : pc[t] \in {"idle", "woken"} => Free(t)
    /\ \A t \in Tasks : helper[t].pc # "idle" => helper[t].waker = t
    /\ \A h \in Helpers : helper[h].pc = "wake1" => Free(Runner)
    /\ cleaners \in 0..NBuilds
    /\ Cardinality(SLOT) <= NBuilds
    /\ \A b \in Builds : build[b].pc \in {"new", "loop", "read", "write", "done"}
    /\ \A k \in Tickets : ticket[k].pc \in {"new", "loop", "inspect", "done"}
    /\ \A c \in Calls : incr[c].pc \in
          {"new", "locked", "called", "suffix", "made", "done", "panicked"}
    /\ engine.holder \in {0} \cup Calls
    /\ COUNTER \in {Unset} \cup 0..(U8 - 1)
    /\ Len(granted) <= NCalls

\* BlockFrame::new (lines 63-67) and the thread-locals: an empty queue, the
\* flag down, no cache, no task, no supply thread
\* a TimeSerialer not built yet
IdleBuild == [pc |-> "new", ident |-> 0, now |-> 0, serial |-> <<>>]

\* a TicketSerialer not built yet
IdleTicket == [pc |-> "new", retry_times |-> 0, datetime |-> 0, cnt |-> 0,
               secs |-> 0, inspected |-> <<>>, result |-> <<>>]

\* auto_increment: UNINITIALIZED (line 11) and FAILED (line 14, i64::MIN: the
\* least integer of the model)
UNINITIALIZED == 0 - 1
FAILED == 0 - 2147483647 - 1

\* a call of IncrState::incr not made yet
IdleIncr == [pc |-> "new", old |-> UNINITIALIZED, new |-> UNINITIALIZED,
             ident |-> UNINITIALIZED, suffix |-> 0, result |-> <<>>]

Untouched ==
    /\ queue = <<>>
    /\ state = FALSE
    /\ BLOCK = [th \in Threads |-> <<>>]
    /\ borrow = [th \in Threads |-> 0]
    /\ holds = [t \in Tasks |-> 0]
    /\ pc = [t \in Tasks |-> "idle"]
    /\ helper = [h \in Helpers |-> IdleHelper]
    /\ panic = "none"
    /\ delivered = {}
    /\ ndelivered = 0
    /\ refills = <<>>
    /\ SLOT = {}
    /\ build = [b \in Builds |-> IdleBuild]
    /\ cleaners = 0
    /\ ticket = [k \in Tickets |-> IdleTicket]
    /\ engine = [built |-> FALSE, holder |-> 0, poisoned |-> FALSE]
    /\ last = UNINITIALIZED
    /\ COUNTER = Unset
    /\ incr = [c \in Calls |-> IdleIncr]
    /\ granted = <<>>

\* The process starts ts seconds past TIMEBASE: the lazy statics START,
\* TIMESTAMP and FRAME (BlockFrame::new) are initialised, nothing was called.
Boot(ts) ==
    /\ wall = TIMEBASE + ts
    /\ TIMESTAMP = ts
    /\ clock = 0
    /\ cursor = CursorNew
    /\ Untouched

\* no Block is iterated and no Cursor constructed by hand
NoDirectUse ==
    /\ it = construct_block(0, 0)
    /\ item = <<>>
    /\ made = <<>>
    /\ ided = <<>>

Init == Boot(0) /\ NoDirectUse

\* ---- next_token / with_block (one poll of the task = one action) -------
\* only the None case is refilled
block_should_assign_none(cell) == cell = <<>>

\* every call asks the BlockFrame for a Block
block_should_assign_always(cell) == TRUE

\* lines 90-98: `0 == block.borrow().as_ref().map(size_hint).unwrap_or_default()`
block_should_assign(cell) == 0 = (IF cell = <<>> THEN 0 ELSE size_hint(cell[1]))

Abort(why) ==
    /\ panic' = why
    /\ UNCHANGED <<FixedVars, clock, cursor, queue, state, BLOCK, borrow, holds, pc,
                   helper, delivered, ndelivered, refills>>

\* line 115 with the closure of next_token (lines 58-64): borrow_mut, unwrap,
\* `block.next().expect(..)`; the guard is dropped when the closure returns.
Dispense(t, th, cell) ==
    IF cell = <<>> \/ BlockNext(cell[1]).item = <<>>
    THEN /\ panic' = "drained"
         /\ BLOCK' = [BLOCK EXCEPT ![th] = cell]
         /\ UNCHANGED <<pc, delivered, ndelivered>>
    ELSE LET r == BlockNext(cell[1]) IN
         /\ BLOCK' = [BLOCK EXCEPT ![th] = <<r.block>>]
         /\ delivered' = delivered \cup {r.item[1]}
         /\ ndelivered' = ndelivered + 1
         /\ pc' = [pc EXCEPT ![t] = "done"]
         /\ panic' = panic

\* a poll that spawns the supply thread before it looks at the queue
PollReadySpawning(t, th) ==
    /\ queue # <<>>
    /\ queue' = Tail(queue)
    /\ Dispense(t, th, <<Head(queue)>>)
    /\ holds' = [holds EXCEPT ![t] = 0]
    /\ borrow' = IF holds[t] # 0 THEN [borrow EXCEPT ![holds[t]] = 0] ELSE borrow
    /\ helper' = [helper EXCEPT ![t] = [IdleHelper EXCEPT !.pc = "cas", !.waker = t]]
    /\ UNCHANGED <<FixedVars, clock, cursor, state, refills>>

\* a poll that reads the head of the queue and leaves it there
PollReadyPeeks(t, th) ==
    /\ queue # <<>>
    /\ queue' = queue
    /\ Dispense(t, th, <<Head(queue)>>)
    /\ holds' = [holds EXCEPT ![t] = 0]
    /\ borrow' = IF holds[t] # 0 THEN [borrow EXCEPT ![holds[t]] = 0] ELSE borrow
    /\ UNCHANGED <<FixedVars, clock, cursor, state, helper, refills>>

\* BlockFuture::poll, `Some(block) = self.queue.pop()`: Ready(block); then
\* with_block line 112 installs it and line 115 dispenses, in the same run.
PollReady(t, th) ==
    /\ queue # <<>>
    /\ queue' = Tail(queue)
    /\ Dispense(t, th, <<Head(queue)>>)
    /\ holds' = [holds EXCEPT ![t] = 0]
    /\ borrow' = IF holds[t] # 0 THEN [borrow EXCEPT ![holds[t]] = 0] ELSE borrow
    /\ UNCHANGED <<FixedVars, clock, cursor, state, helper, refills>>

\* The naive port: the RefMut taken before `.await` stays alive while the
\* task is suspended.
SuspendHoldingBorrow(t, th) ==
    /\ queue = <<>>
    /\ Free(t)
    /\ helper' = [helper EXCEPT ![t] =
                     [IdleHelper EXCEPT !.pc = "cas", !.waker = t]]
    /\ pc' = [pc EXCEPT ![t] = "pending"]
    /\ borrow' = [borrow EXCEPT ![th] = -1]
    /\ holds' = [holds EXCEPT ![t] = th]
    /\ UNCHANGED <<FixedVars, clock, cursor, queue, state, BLOCK, panic,
                   delivered, ndelivered, refills>>

\* BlockFuture::poll, queue empty: clone the waker, spawn `supply(Some(&waker))`,
\* return Pending; with_block is suspended at line 108 holding no guard.
Suspend(t, th) ==
    /\ queue = <<>>
    /\ Free(t)
    /\ helper' = [helper EXCEPT ![t] =
                     [IdleHelper EXCEPT !.pc = "cas", !.waker = t]]
    /\ pc' = [pc EXCEPT ![t] = "pending"]
    /\ UNCHANGED <<FixedVars, clock, cursor, queue, state, BLOCK, borrow, holds,
                   panic, delivered, ndelivered, refills>>

\* First poll of next_token() by task t on worker thread th.
Call(t, th) ==
    /\ panic = "none"
    /\ pc[t] = "idle"
    /\ IF borrow[th] # 0
       THEN Abort("borrow")
       ELSE IF block_should_assign(BLOCK[th])
            THEN PollReady(t, th) \/ Suspend(t, th)
            ELSE /\ Dispense(t, th, BLOCK[th])
                 /\ UNCHANGED <<FixedVars, clock, cursor, queue, state, borrow, holds,
                                helper, refills>>

\* Poll of a woken task, on any worker thread: BlockFuture::poll again.
Resume(t, th) ==
    /\ panic = "none"
    /\ pc[t] = "woken"
    /\ IF borrow[th] # 0 /\ holds[t] # th
       THEN Abort("borrow")
       ELSE PollReady(t, th) \/ Suspend(t, th)

\* The caller drops the suspended future of next_token() (a timeout, a
\* select!, an aborted task): the BlockFuture is dropped with it.  It has no
\* Drop impl and holds only its two Arcs, so nothing else changes; the waker
\* clone moved into the supply thread (line 215-217) stays with that thread.
\* a drop that reaches into the supply thread and takes its waker away
DropTakesWaker(t) ==
    /\ panic = "none"
    /\ pc[t] \in {"pending", "woken"}
    /\ pc' = [pc EXCEPT ![t] = "dropped"]
    /\ holds' = [holds EXCEPT ![t] = 0]
    /\ borrow' = IF holds[t] # 0 THEN [borrow EXCEPT ![holds[t]] = 0] ELSE borrow
    /\ helper' = [helper EXCEPT ![t].waker = 0]
    /\ UNCHANGED <<FixedVars, clock, cursor, queue, state, refills,
                   BLOCK, panic, delivered, ndelivered>>

\* a drop that ends the refill with the future, as if poll ran it inline
DropEndsSupply(t) ==
    /\ panic = "none"
    /\ pc[t] \in {"pending", "woken"}
    /\ pc' = [pc EXCEPT ![t] = "dropped"]
    /\ holds' = [holds EXCEPT ![t] = 0]
    /\ borrow' = IF holds[t] # 0 THEN [borrow EXCEPT ![holds[t]] = 0] ELSE borrow
    /\ helper' = [helper EXCEPT ![t] = IdleHelper]
    /\ UNCHANGED <<FixedVars, clock, cursor, queue, state, refills,
                   BLOCK, panic, delivered, ndelivered>>

Drop(t) ==
    /\ panic = "none"
    /\ pc[t] \in {"pending", "woken"}
    /\ pc' = [pc EXCEPT ![t] = "dropped"]
    /\ holds' = [holds EXCEPT ![t] = 0]
    /\ borrow' = IF holds[t] # 0 THEN [borrow EXCEPT ![holds[t]] = 0] ELSE borrow
    /\ UNCHANGED <<FixedVars, clock, cursor, queue, state, helper, refills,
                   BLOCK, panic, delivered, ndelivered>>

\* ---- the supply closure (BlockFrame::next_block, lines 88-135) ----------
TaskVars == <<BLOCK, borrow, holds, panic, delivered, ndelivered>>

At(h, where) == panic = "none" /\ helper[h].pc = where

\* line 90, where a lost CAS also releases `state` (step 5 for everybody)
HCasLoserReleases(h) ==
    /\ At(h, "cas")
    /\ IF state = FALSE
       THEN /\ state' = TRUE
            /\ helper' = [helper EXCEPT ![h].pc = "load", ![h].won = TRUE]
       ELSE /\ state' = state
            /\ helper' = [helper EXCEPT ![h].pc = "store"]
    /\ UNCHANGED <<FixedVars, clock, cursor, queue, pc, refills, TaskVars>>

\* line 90, where a lost CAS returns at once, its waker never woken
HCasLoserReturns(h) ==
    /\ At(h, "cas")
    /\ IF state = FALSE
       THEN /\ state' = TRUE
            /\ helper' = [helper EXCEPT ![h].pc = "load", ![h].won = TRUE]
       ELSE /\ state' = state
            /\ helper' = [helper EXCEPT ![h] = IdleHelper]
    /\ UNCHANGED <<FixedVars, clock, cursor, queue, pc, refills, TaskVars>>

\* line 90: `if state.compare_exchange(false, true).is_ok()`; on failure the
\* whole `if` body (store(false) included) is skipped, line 132 is next.
HCas(h) ==
    /\ At(h, "cas")
    /\ IF state = FALSE
       THEN /\ state' = TRUE
            /\ helper' = [helper EXCEPT ![h].pc = "load", ![h].won = TRUE]
       ELSE /\ state' = state
            /\ helper' = [helper EXCEPT ![h].pc = "wake"]
    /\ UNCHANGED <<FixedVars, clock, cursor, queue, pc, refills, TaskVars>>

\* line 96: `prev = cursor.load()`
HLoad(h) ==
    /\ At(h, "load")
    /\ helper' = [helper EXCEPT ![h].prev = cursor, ![h].pc = "next"]
    /\ UNCHANGED <<FixedVars, clock, cursor, queue, state, pc, refills, TaskVars>>

\* line 97 with a counter for the clock: `next = Cursor(prev.0 + 1)`
HNextCounts(h) ==
    /\ At(h, "next")
    /\ helper' = [helper EXCEPT ![h].next = (helper[h].prev + 1) % U32,
                                ![h].pc = "cascur"]
    /\ panic' = panic
    /\ UNCHANGED <<FixedVars, clock, cursor, queue, state, pc, refills,
                   BLOCK, borrow, holds, delivered, ndelivered>>

\* line 97: `next = prev.next()`; Cursor::next spins until a reading passes.
\* A panic of Cursor::new happens on the spawned thread (line 217, the
\* JoinHandle dropped).  What it does is the build's choice: with panic=unwind
\* (the default) only this thread ends, nothing after line 97 runs and the
\* process goes on; with panic=abort the process ends.
HNext(h) ==
    /\ At(h, "next")
    /\ IF CursorNewOverflows
       THEN \/ helper' = [helper EXCEPT ![h].pc = "panicked"] /\ panic' = panic
            \/ helper' = helper /\ panic' = "overflow"
       ELSE /\ CursorNextReturns(helper[h].prev, CursorNew)
            /\ helper' = [helper EXCEPT ![h].next = CursorNew, ![h].pc = "cascur"]
            /\ panic' = panic
    /\ UNCHANGED <<FixedVars, clock, cursor, queue, state, pc, refills,
                   BLOCK, borrow, holds, delivered, ndelivered>>

\* lines 96-97 without the compare_exchange: `next` is used, never stored
HCasCursorSkips(h) ==
    /\ At(h, "cascur")
    /\ refills' = Append(refills, helper[h].next)
    /\ helper' = [helper EXCEPT ![h].pc = "shuffle"]
    /\ UNCHANGED <<FixedVars, clock, cursor, queue, state, pc, TaskVars>>

\* line 98: `cursor.compare_exchange(prev, next)`; retry from line 96 on failure
HCasCursor(h) ==
    /\ At(h, "cascur")
    /\ IF cursor = helper[h].prev
       THEN /\ cursor' = helper[h].next
            /\ refills' = Append(refills, helper[h].next)
            /\ helper' = [helper EXCEPT ![h].pc = "shuffle"]
       ELSE /\ helper' = [helper EXCEPT ![h].pc = "load"]
            /\ UNCHANGED <<cursor, refills>>
    /\ UNCHANGED <<FixedVars, clock, queue, state, pc, TaskVars>>

\* lines 106-107: seq = (0..QUEUE_SIZE) shuffled
HShuffle(h) ==
    /\ At(h, "shuffle")
    /\ \E s \in Perms :
          helper' = [helper EXCEPT ![h].seq = s, ![h].n = 1, ![h].pc = "push"]
    /\ UNCHANGED <<FixedVars, clock, cursor, queue, state, pc, refills, TaskVars>>

\* the `for n in seq` loop moves on, or ends and line 129 is next
Advance(r) ==
    IF r.n >= Len(r.seq) THEN [r EXCEPT !.pc = "store"]
                         ELSE [r EXCEPT !.n = @ + 1, !.pc = "push"]

\* lines 112-118 with `continue` for `break`: a full queue skips one index
HPushContinue(h) ==
    /\ At(h, "push")
    /\ LET r == helper[h]
           block == construct_block(r.seq[r.n], r.next) IN
       IF Len(queue) >= QUEUE_SIZE
       THEN /\ helper' = [helper EXCEPT ![h] = Advance([r EXCEPT !.failed = TRUE])]
            /\ queue' = queue
       ELSE /\ queue' = Append(queue, block)
            /\ helper' = [helper EXCEPT ![h] =
                  IF r.waker # 0
                  THEN [r EXCEPT !.out = Append(@, block), !.pc = "wake1"]
                  ELSE Advance([r EXCEPT !.out = Append(@, block)])]
    /\ UNCHANGED <<FixedVars, clock, cursor, state, pc, refills, TaskVars>>

\* lines 112-118 on a queue allocated with one slot too many
HPushOneMore(h) ==
    /\ At(h, "push")
    /\ LET r == helper[h]
           block == construct_block(r.seq[r.n], r.next) IN
       IF Len(queue) >= QUEUE_SIZE + 1
       THEN /\ helper' = [helper EXCEPT ![h].failed = TRUE, ![h].pc = "store"]
            /\ queue' = queue
       ELSE /\ queue' = Append(queue, block)
            /\ helper' = [helper EXCEPT ![h] =
                  IF r.waker # 0
                  THEN [r EXCEPT !.out = Append(@, block), !.pc = "wake1"]
                  ELSE Advance([r EXCEPT !.out = Append(@, block)])]
    /\ UNCHANGED <<FixedVars, clock, cursor, state, pc, refills, TaskVars>>

\* lines 112-118 with the waker woken at the `break`, ahead of line 129
HPushWakesOnBreak(h) ==
    /\ At(h, "push")
    /\ LET r == helper[h]
           block == construct_block(r.seq[r.n], r.next) IN
       IF Len(queue) >= QUEUE_SIZE
       THEN /\ helper' = [helper EXCEPT ![h].failed = TRUE, ![h].pc = "store",
                                        ![h].waker = 0,
                                        ![h].wakes = IF r.waker # 0 THEN @ + 1 ELSE @]
            /\ pc' = Wake(pc, r.waker)
            /\ queue' = queue
       ELSE /\ queue' = Append(queue, block)
            /\ pc' = pc
            /\ helper' = [helper EXCEPT ![h] =
                  IF r.waker # 0
                  THEN [r EXCEPT !.out = Append(@, block), !.pc = "wake1"]
                  ELSE Advance([r EXCEPT !.out = Append(@, block)])]
    /\ UNCHANGED <<FixedVars, clock, cursor, state, refills, TaskVars>>

\* lines 112-118: construct the Block of seq[n] and push it; `break` when full.
\* With the waker already taken, lines 122-126 do nothing.
HPush(h) ==
    /\ At(h, "push")
    /\ LET r == helper[h]
           block == construct_block(r.seq[r.n], r.next) IN
       IF Len(queue) >= QUEUE_SIZE
       THEN /\ helper' = [helper EXCEPT ![h].failed = TRUE, ![h].pc = "store"]
            /\ queue' = queue
       ELSE /\ queue' = Append(queue, block)
            /\ helper' = [helper EXCEPT ![h] =
                  IF r.waker # 0
                  THEN [r EXCEPT !.out = Append(@, block), !.pc = "wake1"]
                  ELSE Advance([r EXCEPT !.out = Append(@, block)])]
    /\ UNCHANGED <<FixedVars, clock, cursor, state, pc, refills, TaskVars>>

\* lines 122-124 with `waker.as_ref()`: the waker is woken but not taken
HWakeEvery(h) ==
    /\ At(h, "wake1")
    /\ pc' = Wake(pc, helper[h].waker)
    /\ helper' = [helper EXCEPT ![h] = Advance([helper[h] EXCEPT !.wakes = @ + 1])]
    /\ UNCHANGED <<FixedVars, clock, cursor, queue, state, refills, TaskVars>>

\* lines 122-124: `if let Some(waker) = waker.take() { waker.wake_by_ref() }`
HWakeFirst(h) ==
    /\ At(h, "wake1")
    /\ pc' = Wake(pc, helper[h].waker)
    /\ Free(Runner)
    /\ helper' = [helper EXCEPT ![h] = IdleHelper, ![Runner] =
          Advance([helper[h] EXCEPT !.waker = 0, !.wakes = @ + 1])]
    /\ UNCHANGED <<FixedVars, clock, cursor, queue, state, refills, TaskVars>>

\* line 129 preceded by `cursor.store(prev)` when a push failed: a refill
\* that could not enqueue its whole batch gives its second back
HStoreRollback(h) ==
    /\ At(h, "store")
    /\ state' = FALSE
    /\ cursor' = IF helper[h].failed THEN helper[h].prev ELSE cursor
    /\ helper' = [helper EXCEPT ![h] =
          IF helper[h].waker # 0
          THEN [helper[h] EXCEPT !.pc = "wake", !.won = FALSE]
          ELSE IdleHelper]
    /\ UNCHANGED <<FixedVars, clock, queue, pc, refills, TaskVars>>

\* the closure ends without line 129: `state` stays true
HStoreKeeps(h) ==
    /\ At(h, "store")
    /\ state' = state
    /\ helper' = [helper EXCEPT ![h] =
          IF helper[h].waker # 0
          THEN [helper[h] EXCEPT !.pc = "wake", !.won = FALSE]
                                 ELSE IdleHelper]
    /\ cursor' = cursor
    /\ UNCHANGED <<FixedVars, clock, queue, pc, refills, TaskVars>>

\* line 129: `state.store(false)`; with no waker left the closure returns
HStore(h) ==
    /\ At(h, "store")
    /\ state' = FALSE
    /\ helper' = [helper EXCEPT ![h] =
          IF helper[h].waker # 0
          THEN [helper[h] EXCEPT !.pc = "wake", !.won = FALSE]
                                 ELSE IdleHelper]
    /\ cursor' = cursor
    /\ UNCHANGED <<FixedVars, clock, queue, pc, refills, TaskVars>>

\* lines 132-134: `if let Some(waker) = waker { waker.wake_by_ref() }`
HWakeLast(h) ==
    /\ At(h, "wake")
    /\ pc' = Wake(pc, helper[h].waker)
    /\ helper' = [helper EXCEPT ![h] = IdleHelper]
    /\ UNCHANGED <<FixedVars, clock, cursor, queue, state, refills, TaskVars>>

Supply(h) ==
    \/ HCas(h) \/ HLoad(h) \/ HNext(h) \/ HCasCursor(h) \/ HShuffle(h)
    \/ HPush(h) \/ HWakeFirst(h) \/ HStore(h) \/ HWakeLast(h)

\* ---- the clock -----------------------------------------------------------
\* START.elapsed().as_secs() grows by one second
Tick ==
    /\ panic = "none"
    /\ TIMESTAMP # Unset
    /\ clock < MaxClock
    /\ clock' = clock + 1
    /\ UNCHANGED <<FixedVars, cursor, queue, state, pc, helper, refills, TaskVars>>

Next ==
    \/ \E t \in Tasks, th \in Threads : Call(t, th)
    \/ \E t \in Tasks, th \in Threads : Resume(t, th)
    \/ \E h \in Helpers : Supply(h)
    \/ Tick

Spec == Init /\ [][Next]_vars

\* The current-thread runtime of `#[tokio::test]` (test_unique_id): every task
\* is polled on worker thread 1.  Fair scheduling: every supply thread keeps
\* running, the clock keeps advancing, and a woken task is polled again.
NextCurrentThread ==
    \/ \E t \in Tasks : Call(t, 1)
    \/ \E t \in Tasks : Resume(t, 1)
    \/ \E h \in Helpers : Supply(h)
    \/ Tick

LiveSpec ==
    /\ Init /\ [][NextCurrentThread]_vars
    /\ \A h \in Helpers : WF_vars(Supply(h))
    /\ WF_vars(Tick)
    /\ \A t \in Tasks : WF_vars(Resume(t, 1))

\* The same program with callers that may give up a pending call.
NextDrop ==
    \/ NextCurrentThread
    \/ \E t \in Tasks : Drop(t)

DropSpec == Init /\ [][NextDrop]_vars

\* One caller may give up, under the fair scheduling of LiveSpec; nothing
\* obliges it to drop, or any caller to call at all.
NextDropOne ==
    \/ NextCurrentThread
    \/ Drop(1)

DropLiveSpec ==
    /\ Init /\ [][NextDropOne]_vars
    /\ \A h \in Helpers : WF_vars(Supply(h))
    /\ WF_vars(Tick)
    /\ \A t \in Tasks : WF_vars(Resume(t, 1))

\* The same program started one second before the last Cursor value.
OverflowInit == Boot(U32_MAX - 1) /\ NoDirectUse

OverflowSpec == OverflowInit /\ [][Next]_vars

\* BlockFrame::new built with feature pause_on_start: the cell starts at
\* `Cursor::new().next()`, the first reading past the one taken at clock 0
PausedBoot ==
    /\ wall = TIMEBASE
    /\ TIMESTAMP = 0
    /\ clock \in 1..MaxClock
    /\ CursorNextReturns(TIMESTAMP, CursorNew)
    /\ cursor = CursorNew
    /\ Untouched

\* The dispenser of either build, with and without pause_on_start.
StartInit == (Boot(0) \/ PausedBoot) /\ NoDirectUse

StartSpec == StartInit /\ [][Next]_vars

\* ---- Block and Cursor used directly ---------------------------------------
\* `it.next()` on a Block the caller owns
Take ==
    /\ panic = "none"
    /\ it' = BlockNext(it).block
    /\ item' = BlockNext(it).item
    /\ UNCHANGED <<wall, TIMESTAMP, made, ided, clock, cursor, queue, state, pc,
                   helper, refills, TaskVars, SerialVars, ticket, IncrVars>>

\* `Cursor::new()` on the caller's thread: a panic there is the caller's.
\* The first call of the process initialises START (elapsed is 0) and
\* TIMESTAMP from the wall clock; later calls read the two statics.
NewCursor ==
    /\ panic = "none"
    /\ UNCHANGED <<wall, clock>>
    /\ IF TIMESTAMP = Unset /\ TimestampInitPanics(wall)
       THEN panic' = "bootstrap" /\ UNCHANGED <<TIMESTAMP, made>>
       ELSE /\ TIMESTAMP' = IF TIMESTAMP = Unset THEN TimestampInit(wall)
                                                 ELSE TIMESTAMP
            /\ IF CursorNewOverflows'
               THEN panic' = "overflow" /\ made' = made
               ELSE panic' = panic /\ made' = <<CursorNew'>>
    /\ UNCHANGED <<it, item, ided, cursor, queue, state, pc, helper,
                   refills, BLOCK, borrow, holds, delivered, ndelivered, SerialVars,
                   ticket, IncrVars>>

\* bootstrap readings that leave the clock room to reach and pass u32::MAX
Timestamps == (U32_MAX - MaxClock)..U32_MAX

UnitInit ==
    /\ \E ts \in Timestamps : Boot(ts)
    /\ \E n \in 0..(QUEUE_SIZE - 1) : it = construct_block(n, cursor)
    /\ item = <<>>
    /\ made = <<>>
    /\ ided = <<>>

NextUnit == Take \/ NewCursor \/ Tick

UnitSpec == UnitInit /\ [][NextUnit]_vars

\* ---- Token::id on Tokens constructed directly -----------------------------
\* the cursors a Token is constructed with, and what cd() may return: c is
\* the process's, d the constructing thread's
Cursors == {0, 1, U32_MAX}
CDs == {<<0, 0>>, <<0, U8 - 1>>}

\* `Token::construct_block(n, c)` on some thread, then `.id()` of its slot i
Id ==
    /\ \E n \in 0..(QUEUE_SIZE - 1), c \in Cursors, i \in 0..(SIZE - 1), cd \in CDs :
          LET token == construct_block(n, c).array[i] IN
          ided' = <<[n |-> n, i |-> i, cursor |-> c, token |-> token,
                     id |-> TokenId(token, cd)]>>
                  \o (IF ided = <<>> THEN <<>> ELSE <<ided[1]>>)
    /\ UNCHANGED <<wall, TIMESTAMP, it, item, made, clock, cursor, queue, state,
                   pc, helper, refills, TaskVars, SerialVars, ticket, IncrVars>>

IdSpec == Init /\ [][Id]_vars

\* ---- Cursor::new from the start of the process ---------------------------
\* wall-clock readings: before UNIX_EPOCH, just before TIMEBASE, at it, the
\* Timestamps, and past the 32 bits
Walls ==
    {0 - 1, TIMEBASE - 1, TIMEBASE, TIMEBASE + U32_MAX + 1}
        \cup {TIMEBASE + ts : ts \in Timestamps}

\* the system clock is set: SystemTime is not monotonic
WallJump ==
    /\ panic = "none"
    /\ \E w \in Walls : w # wall /\ wall' = w
    /\ UNCHANGED <<TIMESTAMP, it, item, made, ided, clock, cursor, queue, state,
                   pc, helper, refills, TaskVars, SerialVars, ticket, IncrVars>>

\* nothing has touched the lazy statics yet; the wall clock reads anything
ClockInit ==
    /\ wall \in Walls
    /\ TIMESTAMP = Unset
    /\ clock = 0
    /\ cursor = Unset
    /\ Untouched
    /\ NoDirectUse

NextClock == NewCursor \/ Tick \/ WallJump

ClockSpec == ClockInit /\ [][NextClock]_vars

\* ---- TimeSerialer (src/src/serial/mod.rs) --------------------------------
\* FASTSEND_DEVICE_ID is set: crate::DEVICE_ID is Some(1); <<>> is None
DEVICE_ID == <<1>>

\* `crate::DEVICE_ID.unwrap_or_else(rand::random)`
Devices == IF DEVICE_ID = <<>> THEN 0..(U8 - 1) ELSE {DEVICE_ID[1]}

\* `(sum ^ (sum >> 32)) % 10000` of the fed bytes: the smallest and the
\* largest suffix
Idents == {0, 10000 - 1}

\* `{:0w}` of a number of at most w decimal digits
RECURSIVE Pad(_, _)
Pad(n, w) == IF w = 0 THEN <<>> ELSE Pad(n \div 10, w - 1) \o <<n % 10>>

\* lines 132-163: "%Y%m%d%H%M%S", the device in 3 digits, the ident in 4.
\* The minute of the local time stands for its 12 digits "%Y%m%d%H%M".
Serial(now, device, ident) ==
    <<now \div 60>> \o Pad(now % 60, 2) \o Pad(device, 3) \o Pad(ident, 4)

contains_key(slot, serial) == \E e \in slot : e[1] = serial
insert(slot, serial, t) == {e \in slot : e[1] # serial} \cup {<<serial, t>>}

\* `list.sort_unstable()` of the distinct timestamps
RECURSIVE Sorted(_)
Sorted(S) ==
    IF S = {} THEN <<>>
    ELSE LET m == CHOOSE x \in S : \A y \in S : x <= y IN <<m>> \o Sorted(S \ {m})

NotSerial == <<TIMESTAMP, it, item, made, ided, clock, cursor, queue, state, pc,
               helper, refills, BLOCK, borrow, holds, panic, delivered, ndelivered,
               ticket, IncrVars>>

\* lines 124-164: `build()` is polled (the data fed before hash to `ident`),
\* or the loop starts again: `now = Local::now()` and the serial of it
BuildNow(b) ==
    /\ build[b].pc \in {"new", "loop"}
    /\ \E ident \in (IF build[b].pc = "new" THEN Idents ELSE {build[b].ident}),
          device \in Devices :
          build' = [build EXCEPT ![b] = [pc |-> "read", ident |-> ident, now |-> wall,
                                         serial |-> Serial(wall, device, ident)]]
    /\ UNCHANGED <<wall, SLOT, cleaners, NotSerial>>

\* lines 168-176: under the read lock, `contains_key`: snooze and `continue`
BuildRead(b) ==
    /\ build[b].pc = "read"
    /\ build' = [build EXCEPT ![b].pc =
          IF contains_key(SLOT, build[b].serial) THEN "loop" ELSE "write"]
    /\ UNCHANGED <<wall, SLOT, cleaners, NotSerial>>

\* lines 180-254: under the write lock, the second test, the insert with
\* `now.timestamp()`, the spawn of the clean-up thread, `return Ok(serial)`
BuildWrite(b) ==
    /\ build[b].pc = "write"
    /\ IF contains_key(SLOT, build[b].serial)
       THEN /\ build' = [build EXCEPT ![b].pc = "loop"]
            /\ UNCHANGED <<SLOT, cleaners>>
       ELSE /\ SLOT' = insert(SLOT, build[b].serial, build[b].now)
            /\ cleaners' = IF Cardinality(SLOT') > GLOBAL_SLOT_SIZE
                           THEN cleaners + 1 ELSE cleaners
            /\ build' = [build EXCEPT ![b].pc = "done"]
    /\ UNCHANGED <<wall, NotSerial>>

\* the same keeping only the entries newer than the middle timestamp
CleanSlotAfterMid ==
    /\ cleaners > 0
    /\ cleaners' = cleaners - 1
    /\ LET sorted_list == Sorted({e[2] : e \in SLOT}) IN
       SLOT' = IF Len(sorted_list) > 1
               THEN LET mid == sorted_list[Len(sorted_list) \div 2 + 1] IN
                    {e \in SLOT : e[2] > mid}
               ELSE SLOT
    /\ UNCHANGED <<wall, build, NotSerial>>

\* lines 197-250: the clean-up thread under the write lock: every entry
\* older than the middle timestamp is dropped
CleanSlot ==
    /\ cleaners > 0
    /\ cleaners' = cleaners - 1
    /\ LET sorted_list == Sorted({e[2] : e \in SLOT}) IN
       SLOT' = IF Len(sorted_list) > 1
               THEN LET mid == sorted_list[Len(sorted_list) \div 2 + 1] IN
                    {e \in SLOT : e[2] >= mid}
               ELSE SLOT
    /\ UNCHANGED <<wall, build, NotSerial>>

\* the wall clock reaches the next second
Second ==
    /\ wall < TIMEBASE + MaxSecond
    /\ wall' = wall + 1
    /\ UNCHANGED <<SerialVars, NotSerial>>

NextSerial ==
    \/ \E b \in Builds : BuildNow(b) \/ BuildRead(b) \/ BuildWrite(b)
    \/ CleanSlot
    \/ Second

SerialSpec == Init /\ [][NextSerial]_vars

\* ---- TicketSerialer (src/src/serial/ticket/mod.rs) -----------------------
\* `retry_times: 10` of TicketSerialer::new (line 99)
DefaultRetryTimes == 10

\* the default, or what `retry_times(n)` set (lines 126-129)
RetryTimes == 0..MaxRetryTimes \cup {DefaultRetryTimes}

\* init (lines 154-163): `ts`, the u32 of the first four bytes fed
Datetimes == {0, 59, U32_MAX}

\* build_head and build_left (lines 338-356) of `dt`: the day and hour, the
\* minute, the second; the other parts of the output do not change in the loop
TicketOutput(dt) == <<dt \div 3600, (dt \div 60) % 60, dt % 60>>

NotTicket == <<wall, TIMESTAMP, it, item, made, ided, clock, cursor, queue, state,
               pc, helper, refills, BLOCK, borrow, holds, panic, delivered,
               ndelivered, SerialVars, IncrVars>>

\* lines 212-218: `build()` is called on a serialer that was fed: init, and
\* `cnt = 0`, `secs = 0`
TicketBuild(k) ==
    /\ ticket[k].pc = "new"
    /\ \E n \in RetryTimes, ts \in Datetimes :
          ticket' = [ticket EXCEPT ![k] =
              [pc |-> "loop", retry_times |-> n, datetime |-> ts, cnt |-> 0,
               secs |-> 0, inspected |-> <<>>, result |-> <<>>]]
    /\ UNCHANGED NotTicket

\* lines 219-266: the top of the loop: `cnt += 1`, the MaxRetry test, then
\* the candidate of `datetime + secs` is handed to inspect (init always
\* fills datetime and both digit parts: DataNotEnough is never returned)
TicketLoop(k) ==
    /\ ticket[k].pc = "loop"
    /\ LET cnt == ticket[k].cnt + 1
           dt == ticket[k].datetime + ticket[k].secs IN
       ticket' = [ticket EXCEPT ![k] =
          IF cnt >= ticket[k].retry_times
          THEN [@ EXCEPT !.pc = "done", !.cnt = cnt, !.result = <<"MaxRetry">>]
          ELSE [@ EXCEPT !.pc = "inspect", !.cnt = cnt,
                         !.inspected = Append(@, dt)]]
    /\ UNCHANGED NotTicket

\* lines 264-273: what the external inspect answered
TicketInspect(k) ==
    /\ ticket[k].pc = "inspect"
    /\ LET dt == ticket[k].datetime + ticket[k].secs IN
       \E answer \in {"duplicated", "unique", "error"} :
          ticket' = [ticket EXCEPT ![k] =
             CASE answer = "duplicated" ->
                     [@ EXCEPT !.pc = "loop", !.secs = @ + 1]
               [] answer = "unique" ->
                     [@ EXCEPT !.pc = "done", !.result = <<"Ok", TicketOutput(dt)>>]
               [] answer = "error" ->
                     [@ EXCEPT !.pc = "done", !.result = <<"InspectFailed">>]]
    /\ UNCHANGED NotTicket

NextTicket == \E k \in Tickets : TicketBuild(k) \/ TicketLoop(k) \/ TicketInspect(k)

TicketSpec == Init /\ [][NextTicket]_vars

\* ---- IncrState (src/src/serial/auto_increment/mod.rs) --------------------
\* `with_start(value)`, `value >= 0` asserted (lines 169-173): <<>> is None
Starts == {<<>>, <<0>>, <<1>>}

\* crate::RV, a u8 of the environment or random: the ends of its range
RVs == {0, U8 - 1}

\* what `engine.incr(old)` may return: any i64
EngineReturns == {FAILED, UNINITIALIZED} \cup 0..MaxIdent

\* `old.rotate_left(1).wrapping_add(1)` of a u8 (line 72)
rotate_left1(x) == ((2 * x) % U8) + (x \div (U8 \div 2))
NextSuffix(old) == (rotate_left1(old) + 1) % U8

\* lines 104-110: the ident (no prefix, no padding) and `suffix % 100` in two
\* digits
IncrOutput(ident, suffix) == <<ident>> \o Pad(suffix % 100, 2)

NotIncr == <<wall, TIMESTAMP, it, item, made, ided, clock, cursor, queue, state,
             pc, helper, refills, BLOCK, borrow, holds, panic, delivered,
             ndelivered, SerialVars, ticket>>

\* IncrStateBuilder::build (lines 187-195): the engine in its Mutex, `last`
\* at the start value or UNINITIALIZED; `&COUNTER` initialises the lazy static
IncrStateBuild ==
    /\ ~engine.built
    /\ \E start \in Starts, rv \in RVs :
          /\ last' = IF start = <<>> THEN UNINITIALIZED ELSE start[1]
          /\ COUNTER' = rv
    /\ engine' = [built |-> TRUE, holder |-> 0, poisoned |-> FALSE]
    /\ UNCHANGED <<incr, granted, NotIncr>>

\* lines 50-53: the assert and `engine.lock().unwrap()`: both panic on a
\* poisoned Mutex, the lock waits for its holder
IncrLock(c) ==
    /\ engine.built
    /\ incr[c].pc = "new"
    /\ IF engine.poisoned
       THEN /\ incr' = [incr EXCEPT ![c].pc = "panicked"]
            /\ UNCHANGED <<engine, granted>>
       ELSE /\ engine.holder = 0
            /\ engine' = [engine EXCEPT !.holder = c]
            /\ granted' = Append(granted, c)
            /\ incr' = [incr EXCEPT ![c].pc = "locked"]
    /\ UNCHANGED <<last, COUNTER, NotIncr>>

\* lines 54-55: `old = last.load()`, `new = engine.incr(old)`; an engine
\* that panics poisons the Mutex as its guard is dropped
IncrEngine(c) ==
    /\ incr[c].pc = "locked"
    /\ \/ \E new \in EngineReturns :
             /\ incr' = [incr EXCEPT ![c].pc = "called", ![c].old = last,
                                     ![c].new = new]
             /\ UNCHANGED engine
       \/ /\ incr' = [incr EXCEPT ![c].pc = "panicked", ![c].old = last]
          /\ engine' = [engine EXCEPT !.holder = 0, !.poisoned = TRUE]
    /\ UNCHANGED <<last, COUNTER, granted, NotIncr>>

\* lines 56-66: the ident, `last.store(new)` when it grew, the guard dropped
IncrStoreChecked(c) ==
    /\ incr[c].pc = "called"
    /\ LET old == incr[c].old
           new == incr[c].new
           ident == IF new = UNINITIALIZED THEN UNINITIALIZED
                    ELSE IF new <= old THEN FAILED ELSE new IN
       /\ last' = IF new # UNINITIALIZED /\ new > old THEN new ELSE last
       /\ incr' = [incr EXCEPT ![c].pc = "suffix", ![c].ident = ident]
    /\ engine' = [engine EXCEPT !.holder = 0]
    /\ UNCHANGED <<COUNTER, granted, NotIncr>>

\* the same with `new <= old` not tested
IncrStoreAlways(c) ==
    /\ incr[c].pc = "called"
    /\ LET new == incr[c].new IN
       /\ last' = IF new # UNINITIALIZED THEN new ELSE last
       /\ incr' = [incr EXCEPT ![c].pc = "suffix", ![c].ident = new]
    /\ engine' = [engine EXCEPT !.holder = 0]
    /\ UNCHANGED <<COUNTER, granted, NotIncr>>

IncrStore(c) == IncrStoreChecked(c)

\* lines 68-83: the compare_exchange that succeeds (one that fails changes
\* nothing and is tried again)
IncrSuffix(c) ==
    /\ incr[c].pc = "suffix"
    /\ COUNTER' = NextSuffix(COUNTER)
    /\ incr' = [incr EXCEPT ![c].pc = "made", ![c].suffix = COUNTER']
    /\ UNCHANGED <<engine, last, granted, NotIncr>>

\* IncrSerialer::build (lines 101-119)
IncrBuild(c) ==
    /\ incr[c].pc = "made"
    /\ incr' = [incr EXCEPT ![c].pc = "done", ![c].result =
          CASE incr[c].ident = UNINITIALIZED -> <<"Err", UNINITIALIZED>>
            [] incr[c].ident = FAILED -> <<"Err", FAILED>>
            [] OTHER -> <<"Ok", IncrOutput(incr[c].ident, incr[c].suffix)>>]
    /\ UNCHANGED <<engine, last, COUNTER, granted, NotIncr>>

NextIncr ==
    \/ IncrStateBuild
    \/ \E c \in Calls : \/ IncrLock(c) \/ IncrEngine(c) \/ IncrStore(c)
                        \/ IncrSuffix(c) \/ IncrBuild(c)

IncrSpec == Init /\ [][NextIncr]_vars

\* ---- properties ----------------------------------------------------------
InRefill(h) == helper[h].won
Suspended(t) == pc[t] \in {"pending", "woken"}
PollPending(t) == pc[t] # "pending" /\ pc'[t] = "pending"
PolledReady(t) == pc[t] # "done" /\ pc'[t] = "done" /\ queue' # queue
Ends(h) == helper[h].pc # "idle" /\ helper'[h].pc = "idle"

\* C1: no Token is returned by next_token() twice: the Tokens delivered so
\* far are as many as the calls that returned, over any interleaving and
\* across several refills of the queue.
C1_NoDuplicateItems == Cardinality(delivered) = ndelivered

C1_Witness ==
    /\ ndelivered >= 3
    /\ Len(refills) >= 2
    /\ \E a, b \in delivered : a.cursor # b.cursor

\* C2: at most one supply thread is between winning the CAS on `state` and
\* storing false into it.
C2_SingleFlight == Cardinality({h \in Helpers : InRefill(h)}) <= 1

C2_Witness ==
    \E h, g \in Helpers :
        /\ InRefill(h)
        /\ helper[g].pc = "wake" /\ ~helper[g].won /\ helper[g].seq = <<>>

\* C3: the cursors of the refills, in the order they won, are strictly
\* increasing, so no two refills construct Blocks with the same cursor.
C3_RefillCursorsIncreasing ==
    \A i, j \in 1..Len(refills) : i < j => refills[i] < refills[j]

C3_Witness == Len(refills) >= 2 /\ queue # <<>>

C5_WakerAccounting ==
    \A h \in Helpers : helper[h].pc # "idle" =>
        \/ helper[h].waker # 0 /\ helper[h].wakes = 0
        \/ helper[h].waker = 0 /\ helper[h].wakes = 1

C5_Step ==
    /\ \A t \in Tasks : PollPending(t) =>
          /\ helper[t].pc = "idle"
          /\ helper'[t] = [IdleHelper EXCEPT !.pc = "cas", !.waker = t]
          /\ \A h \in Helpers \ {t} : helper'[h] = helper[h]
    /\ \A h \in Tasks : Ends(h) =>
          /\ helper[h].waker = h /\ helper[h].wakes = 0
          /\ pc[h] = "pending" /\ pc'[h] = "woken"
    /\ Ends(Runner) => helper[Runner].wakes = 1 /\ pc' = pc

C5_WakeExactlyOnce == [] C5_WakerAccounting /\ [][C5_Step]_vars

C5_Witness ==
    /\ helper[Runner].pc = "push" /\ helper[Runner].wakes = 1
    /\ \E h \in Tasks : helper[h].pc = "wake" /\ pc[h] = "pending"

\* C6: the Block handed to the closure of next_token always has an item
\* left: the `unexpected drained Block` panic does not happen.
C6_NeverDrained == panic # "drained"

C6_Witness ==
    \E th \in Threads :
        /\ BLOCK[th] # <<>>
        /\ BLOCK[th][1].index = 1
        /\ BLOCK[th][1].array[0].cursor >= 2
        /\ \E other \in Threads \ {th} :
              BLOCK[other] # <<>> /\ size_hint(BLOCK[other][1]) = 0

\* C7: a suspended task keeps no guard on any BLOCK cell, no cell is
\* borrowed between two polls, and no borrow panics.
C7_NoBorrowAcrossAwait ==
    /\ \A t \in Tasks : Suspended(t) => holds[t] = 0
    /\ \A th \in Threads : borrow[th] = 0
    /\ panic # "borrow"

C7_Witness ==
    /\ \E t, u \in Tasks : t # u /\ Suspended(t) /\ Suspended(u)
    /\ \E th \in Threads : BLOCK[th] # <<>>

\* C8: a poll returns Pending only when the queue is empty; a poll that
\* finds a Block returns the head of the queue, starts no supply thread and
\* wakes nobody.
C8_Step ==
    \A t \in Tasks :
        /\ PollPending(t) => queue = <<>>
        /\ pc[t] = "woken" /\ pc'[t] # "woken" /\ queue # <<>> => PolledReady(t)
        /\ PolledReady(t) =>
              /\ queue # <<>>
              /\ queue' = Tail(queue)
              /\ \E th \in Threads : BLOCK'[th] = <<BlockNext(Head(queue)).block>>
              /\ Head(queue).array[0] \in delivered'
              /\ helper' = helper
              /\ \A u \in Tasks \ {t} : pc'[u] = pc[u]

C8_FastPath == [][C8_Step]_vars

C8_Witness ==
    \E t, u \in Tasks :
        /\ pc[t] = "done"
        /\ pc[u] = "pending"
        /\ queue # <<>>

\* C9: the cursor cell never decreases.
C9_CursorNonDecreasing == [][cursor' >= cursor]_vars

C9_Witness == cursor >= 2 /\ \E h \in Helpers : helper[h].failed

\* C10: a refill walks a permutation of the batch indices, pushes the
\* Blocks of its cursor for a prefix of it, the whole of it when no push
\* fails, and leaves the loop at the first push that finds the queue full.
C10_RefillBatch ==
    \A h \in Helpers : helper[h].seq # <<>> =>
        LET r == helper[h] IN
        /\ r.seq \in Perms
        /\ {r.seq[i] : i \in 1..QUEUE_SIZE} = 0..(QUEUE_SIZE - 1)
        /\ r.won => r.next = cursor
        /\ Len(r.out) <= QUEUE_SIZE
        /\ \A i \in 1..Len(r.out) : r.out[i] = construct_block(r.seq[i], r.next)
        /\ r.pc \in {"push", "wake1"} => ~r.failed
        /\ r.pc = "push" => r.n = Len(r.out) + 1
        /\ r.pc = "wake1" => r.n = Len(r.out)
        /\ r.pc \in {"store", "wake"} /\ ~r.failed => Len(r.out) = QUEUE_SIZE

C10_Witness ==
    \E h \in Helpers :
        /\ helper[h].failed
        /\ Len(helper[h].out) >= 1
        /\ helper[h].pc = "store"

\* C11: every Block in the queue, and so every Block a poll takes from it,
\* has dispensed nothing: its index is 0, it yields its SIZE items in slot
\* order and then reports empty.
C11_QueuedBlocksAreWhole ==
    \A i \in 1..Len(queue) :
        /\ queue[i].index = 0
        /\ size_hint(queue[i]) = SIZE
        /\ TakeAll(queue[i]) = [k \in 1..SIZE |-> queue[i].array[k - 1]]

C11_Witness ==
    /\ Len(queue) = QUEUE_SIZE
    /\ Len(refills) >= 2
    /\ \E th \in Threads : BLOCK[th] # <<>> /\ BLOCK[th][1].index = SIZE

\* C12: a take from a Block at index i < SIZE returns slot i and moves the
\* index to i + 1; at index SIZE it returns None and changes nothing; the
\* slots never change, the index stays in 0..SIZE, and what is left to take
\* is the SIZE - index slots from `index` on, in order.
C12_Shape ==
    /\ it.index \in 0..SIZE
    /\ Len(TakeAll(it)) = SIZE - it.index
    /\ size_hint(it) = Len(TakeAll(it))
    /\ TakeAll(it) = [k \in 1..(SIZE - it.index) |-> it.array[it.index + k - 1]]
    /\ item # <<>> => it.index >= 1 /\ item[1] = it.array[it.index - 1]

C12_Step ==
    /\ it'.array = it.array
    /\ it.index < SIZE /\ (it' # it \/ item' # item) =>
          item' = <<it.array[it.index]>> /\ it'.index = it.index + 1
    /\ it.index >= SIZE => it' = it /\ item' = <<>>

C12_TakeInSlotOrder == [] C12_Shape /\ [][C12_Step \/ UNCHANGED <<it, item>>]_vars

C12_Witness == it.index = SIZE /\ item = <<>> /\ made # <<>>

\* C13: the queue never holds more than QUEUE_SIZE Blocks; a push that finds
\* it full fails, leaves it as it was and ends the enqueue loop.
C13_Step ==
    \A h \in Helpers :
        helper[h].pc = "push" /\ Len(queue) >= QUEUE_SIZE /\ helper'[h] # helper[h] =>
            /\ queue' = queue
            /\ helper'[h].failed
            /\ helper'[h].pc = "store"

C13_QueueBounded == [] (Len(queue) <= QUEUE_SIZE) /\ [][C13_Step]_vars

C13_Witness ==
    /\ Len(queue) = QUEUE_SIZE
    /\ \E h \in Helpers : helper[h].failed /\ helper[h].out = <<>>

\* C14: a refill that won the CAS and is about to enqueue its first Block
\* finds the queue empty, and no push of a refill finds the queue full.
C14_RefillOnlyAfterDrain ==
    \A h \in Helpers :
        /\ helper[h].pc \in {"shuffle", "push"} /\ helper[h].out = <<>> =>
              queue = <<>>
        /\ ~helper[h].failed

\* C15: a poll installs the Block it popped into a thread's cache only when
\* that cache is absent or has no item left.
C15_InstallOnlyWhenEmpty ==
    [][\A th \in Threads :
          BLOCK'[th] # BLOCK[th] /\ queue' # queue =>
              block_should_assign(BLOCK[th])]_vars

\* C16 as stated: a cache is absent or has at least one item left.
C16_CacheNeverDrained ==
    \A th \in Threads : BLOCK[th] = <<>> \/ size_hint(BLOCK[th][1]) >= 1

\* C16, amended: a cache is absent or holds a Block that has served at least
\* one item and may have none left; no item is ever asked of a drained
\* Block: the call that changes a drained cache replaces it with the Block
\* it popped from the queue and serves that Block's first item.
C16_CacheShape ==
    \A th \in Threads :
        BLOCK[th] # <<>> => BLOCK[th][1].index \in 1..SIZE

C16_Step ==
    /\ panic' # "drained"
    /\ \A th \in Threads : BLOCK'[th] # BLOCK[th] =>
          /\ ndelivered' = ndelivered + 1
          /\ BLOCK'[th][1].array[BLOCK'[th][1].index - 1] \in delivered'
          /\ BLOCK[th] # <<>> /\ size_hint(BLOCK[th][1]) = 0 =>
                /\ queue # <<>> /\ queue' = Tail(queue)
                /\ BLOCK'[th] = <<BlockNext(Head(queue)).block>>

C16_DrainedCacheIsReplaced == [] C16_CacheShape /\ [][C16_Step]_vars

C16_Witness ==
    \E th \in Threads :
        /\ BLOCK[th] # <<>> /\ BLOCK[th][1].index = 1
        /\ \A other \in Threads \ {th} : BLOCK[other] = <<>>
        /\ ndelivered = 3
        /\ \E a, b \in delivered :
              /\ a.cursor = b.cursor /\ a # BLOCK[th][1].array[0]
              /\ a.ident % SIZE = 0 /\ b.ident = a.ident + SIZE - 1

\* C17: a panic of the refill ends the process: no supply thread has
\* panicked while the process runs on, and `state` is never true with no
\* thread in the refill.
C17_RefillPanicIsFatal ==
    /\ \A h \in Helpers : helper[h].pc = "panicked" => panic # "none"
    /\ panic = "none" /\ state =>
          \E h \in Helpers : InRefill(h) /\ helper[h].pc # "panicked"

\* C18 as stated: the waker registered by a dropped future is not invoked.
C18_NoWakeAfterDrop == \A t \in Tasks : pc[t] # "droppedWoken"

\* C18, amended: dropping the future changes nothing for the supply thread
\* its poll spawned; that thread still invokes the waker, exactly once, as
\* its last act in helper[t], and the wake-up gives the dropped future
\* nothing: it is not polled again and is handed no Block.
C18_DropKeepsWaker ==
    \A t \in Tasks :
        /\ pc[t] = "dropped" /\ ~Free(t) =>
              helper[t].waker = t /\ helper[t].wakes = 0
        /\ pc[t] = "droppedWoken" => Free(t)

C18_Step ==
    \A t \in Tasks :
        /\ pc[t] \notin {"dropped", "droppedWoken"} /\ pc'[t] = "dropped" =>
              helper' = helper
        /\ pc[t] = "dropped" =>
              /\ pc'[t] \in {"dropped", "droppedWoken"}
              /\ Ends(t) <=> pc'[t] = "droppedWoken"
              /\ Ends(t) => helper[t].pc \in {"wake1", "wake"}
        /\ pc[t] = "droppedWoken" => pc'[t] = "droppedWoken"
        /\ pc[t] \in {"dropped", "droppedWoken"} =>
              /\ holds'[t] = 0
              /\ ndelivered' # ndelivered =>
                    \E u \in Tasks \ {t} : pc[u] # "done" /\ pc'[u] = "done"

C18_WakeAfterDropOnce == [] C18_DropKeepsWaker /\ [][C18_Step]_vars

C18_Witness ==
    \E t, u \in Tasks :
        /\ pc[t] = "droppedWoken"
        /\ pc[u] = "dropped" /\ helper[u].pc = "wake"

\* C19: the supply thread of a dropped future is not touched by the drop
\* and runs to the end of the closure; one that wins the CAS advances the
\* cursor, enqueues and stores false; a Block leaves the queue only into the
\* hands of a caller that is still there.  The one wait without end is the
\* model's: Cursor::next on a clock that has stopped at MaxClock.  The
\* future dropped is that of task 1, the one DropLiveSpec lets go.
ClockStopped ==
    /\ clock = MaxClock
    /\ \E h \in Helpers : helper[h].pc = "next" /\ helper[h].prev = TIMESTAMP + MaxClock

C19_Step ==
    /\ \A t \in Tasks :
          pc[t] \notin {"dropped", "droppedWoken"} /\ pc'[t] = "dropped" =>
              UNCHANGED <<helper, state, cursor, queue>>
    /\ \A h \in Helpers :
          /\ Ends(h) => helper[h].pc \in {"wake1", "wake", "store"}
          /\ helper[h].pc = "cascur" /\ helper'[h].pc = "shuffle" =>
                cursor' = helper[h].next /\ cursor' > cursor /\ state
          /\ helper[h].pc = "push" /\ helper'[h] # helper[h] =>
                \/ queue' = Append(queue, construct_block(helper[h].seq[helper[h].n], cursor))
                \/ Len(queue) = QUEUE_SIZE /\ helper'[h].pc = "store"
          /\ helper[h].pc = "store" /\ helper'[h] # helper[h] => ~state'
    /\ queue' # queue /\ Len(queue') <= Len(queue) =>
          /\ queue' = Tail(queue)
          /\ \E u \in Tasks :
                /\ pc[u] \in {"idle", "woken"} /\ pc'[u] = "done"
                /\ Head(queue).array[0] \in delivered'

C19_SupplyOutlivesFuture ==
    /\ [][C19_Step]_vars
    /\ (pc[1] = "dropped" /\ ~Free(1)) ~> (Free(1) \/ ClockStopped)
    /\ (~Free(Runner)) ~> Free(Runner)

C19_Witness ==
    \E t, u \in Tasks :
        /\ pc[t] = "droppedWoken" /\ pc[u] = "done"
        /\ \A v \in Tasks \ {t, u} : pc[v] = "idle"
        /\ \A h \in Helpers : Free(h)
        /\ Len(refills) = 1 /\ ~state
        /\ Len(queue) = QUEUE_SIZE - 1

\* C20 as stated: with the clock at u32::MAX seconds past TIMEBASE no Cursor
\* is returned.
C20_NoCursorAtMax == made # <<U32_MAX>>

\* C20, amended: Cursor::new panics when the clock reads more than u32::MAX
\* seconds past TIMEBASE; at exactly u32::MAX it still returns
\* Cursor(u32::MAX), and what it returns is always the reading itself, never
\* a wrapped value.
C20_Made ==
    /\ made # <<>> => made[1] \in TIMESTAMP..U32_MAX /\ made[1] <= TIMESTAMP + clock
    /\ panic = "overflow" => TIMESTAMP + clock > U32_MAX

C20_Step ==
    made' # made \/ panic' # panic =>
        IF TIMESTAMP + clock > U32_MAX
        THEN panic' = "overflow" /\ made' = made
        ELSE panic' = panic /\ made' = <<TIMESTAMP + clock>>

C20_PanicsPastMax == [] C20_Made /\ [][C20_Step]_vars

C20_Witness == made = <<U32_MAX>> /\ panic = "overflow"

\* C21: the first Cursor::new of a process captures wall - TIMEBASE and
\* panics when that is negative or over u32::MAX; every call returns
\* TIMESTAMP + elapsed when it is at most u32::MAX and panics otherwise; a
\* value returned is never a wrapped one.
C21_Made ==
    made # <<>> =>
        /\ TIMESTAMP \in 0..U32_MAX
        /\ made[1] \in TIMESTAMP..U32_MAX
        /\ made[1] <= TIMESTAMP + clock

C21_Step ==
    made' # made \/ panic' # panic \/ TIMESTAMP' # TIMESTAMP =>
        IF TIMESTAMP = Unset
        THEN IF wall < TIMEBASE \/ wall - TIMEBASE > U32_MAX
             THEN panic' = "bootstrap" /\ made' = made /\ TIMESTAMP' = Unset
             ELSE /\ TIMESTAMP' = wall - TIMEBASE
                  /\ made' = <<wall - TIMEBASE + clock>>
                  /\ panic' = panic
        ELSE /\ TIMESTAMP' = TIMESTAMP
             /\ IF TIMESTAMP + clock > U32_MAX
                THEN panic' = "overflow" /\ made' = made
                ELSE panic' = panic /\ made' = <<TIMESTAMP + clock>>

C21_BootstrapAndSum == [] C21_Made /\ [][C21_Step]_vars

C21_Witness == panic = "bootstrap" /\ wall > TIMEBASE + U32_MAX

\* C23: the Cursors returned by successive Cursor::new calls never
\* decrease, whatever the wall clock does after the bootstrap.
C23_NewNonDecreasing ==
    [][made # <<>> /\ made' # <<>> => made'[1] >= made[1]]_vars

C23_Witness ==
    /\ made # <<>> /\ made[1] > TIMESTAMP
    /\ wall < TIMEBASE + TIMESTAMP

\* C22: Cursor::next(c) never returns a cursor <= c: what it returns is the
\* reading of Cursor::new at the moment it returns and that reading is > c;
\* it does not return while the reading is <= c and it can return as soon as
\* the reading is past c.
C22_Returns ==
    \A h \in Helpers :
        helper[h].pc = "next" /\ helper'[h].pc = "cascur"
        => /\ helper'[h].next = TIMESTAMP + clock
           /\ helper'[h].next > helper[h].prev
           /\ helper'[h].prev = helper[h].prev
C22_Spins ==
    \A h \in Helpers :
        At(h, "next") /\ ~CursorNewOverflows
        => (ENABLED HNext(h) <=> TIMESTAMP + clock > helper[h].prev)
C22_NextStrictlyLater == [] C22_Spins /\ [][C22_Returns]_vars
\* a Cursor::next that returned a reading two seconds past its argument
C22_Witness ==
    \E h \in Helpers :
        /\ helper[h].pc = "cascur"
        /\ helper[h].next >= helper[h].prev + 2

\* the step a supply thread takes on finding `state` already true
LostCas(h) == helper[h].pc = "cas" /\ state /\ helper'[h] # helper[h]

\* C25 as stated: a refill invocation whose CAS on `state` fails goes on with
\* the store of false into `state` and only then wakes its waker, the cursor
\* and the queue untouched.
C25_LoserStoresFalse ==
    [][\A h \in Helpers : LostCas(h) => helper'[h].pc = "store"]_vars

\* C25: a refill invocation whose CAS on `state` fails skips the whole `if`
\* body, the store of false included: its next and only step wakes its waker,
\* and neither step changes `state`, the cursor or the queue.
C25_LoserSteps ==
    \A h \in Helpers :
        /\ LostCas(h)
           => /\ helper'[h] = [helper[h] EXCEPT !.pc = "wake"]
              /\ UNCHANGED <<state, cursor, queue, refills, pc>>
        /\ helper[h].pc = "wake" /\ helper'[h] # helper[h]
           => /\ helper'[h] = IdleHelper
              /\ pc' = Wake(pc, helper[h].waker)
              /\ UNCHANGED <<state, cursor, queue, refills>>
C25_LoserOnlyWakes == [][C25_LoserSteps]_vars
\* a loser about to wake its waker while the winner still holds `state` and
\* has enqueued nothing
C25_Witness ==
    \E h, g \in Helpers :
        /\ helper[h].pc = "wake" /\ helper[h].waker # 0
        /\ state /\ InRefill(g) /\ g # h
        /\ queue = <<>> /\ refills = <<>>

\* every Block there is: queued, cached by a thread, or just pushed
AllBlocks ==
    {queue[i] : i \in 1..Len(queue)}
    \cup {BLOCK[th][1] : th \in {x \in Threads : BLOCK[x] # <<>>}}
    \cup UNION {{helper[h].out[i] : i \in 1..Len(helper[h].out)} : h \in Helpers}
BlockCursors(b) == {b.array[i].cursor : i \in DOMAIN b.array}

\* C26: the cursor of the first refill is strictly greater than the cursor
\* BlockFrame::new stored, with and without pause_on_start, and no Block is
\* ever constructed with that initial cursor: until the first refill the cell
\* keeps its initial value and no Block exists, the first refill's cursor is
\* greater than it, and every Block carries the cursor of a refill, none of
\* them below the first.
C26_BeforeFirstRefill == refills = <<>> => AllBlocks = {} /\ delivered = {}
C26_BlocksOfRefills ==
    /\ \A b \in AllBlocks : \E i \in 1..Len(refills) : BlockCursors(b) = {refills[i]}
    /\ \A x \in delivered : \E i \in 1..Len(refills) : x.cursor = refills[i]
    /\ \A i \in 1..Len(refills) : refills[i] >= refills[1]
C26_FirstRefill ==
    refills = <<>> =>
        IF refills' = <<>> THEN cursor' = cursor
        ELSE refills'[1] > cursor /\ cursor' = refills'[1]
C26_InitialCursorUnused ==
    [] C26_BeforeFirstRefill /\ [] C26_BlocksOfRefills /\ [][C26_FirstRefill]_vars
\* built with pause_on_start (the cell starts past TIMESTAMP), the first
\* refill has its cursor from Cursor::next
C26_Witness ==
    /\ refills = <<>>
    /\ cursor > TIMESTAMP
    /\ \E h \in Helpers : helper[h].pc = "cascur" /\ helper[h].next > cursor

\* C27: in a refill that won the CAS the waker is woken right after the first
\* successful enqueue, before the second Block is constructed: at that wake
\* exactly one Block, of the new cursor, has been pushed; the wake takes the
\* waker, so the later enqueues of the refill wake nobody.
C27_AtFirstWake ==
    \A h \in Helpers :
        helper[h].pc = "wake1"
        => /\ helper[h].won /\ helper[h].waker # 0 /\ helper[h].wakes = 0
           /\ Len(helper[h].out) = 1
           /\ BlockCursors(helper[h].out[1]) = {helper[h].next}
           /\ helper[h].next = cursor
C27_AfterFirstWake ==
    \A h \in Helpers :
        helper[h].won /\ Len(helper[h].out) >= 1 /\ helper[h].pc # "wake1"
        => helper[h].waker = 0 /\ helper[h].wakes = 1
C27_Steps ==
    \A h \in Helpers :
        /\ helper[h].pc = "push" /\ Len(helper'[h].out) > Len(helper[h].out)
           => /\ pc' = pc
              /\ helper'[h].pc = "wake1" <=> helper[h].waker # 0
        /\ helper[h].pc = "wake1" /\ helper'[h] # helper[h]
           => /\ pc' = Wake(pc, helper[h].waker)
              /\ queue' = queue
              /\ \E g \in Helpers : /\ helper'[g].out = helper[h].out
                                    /\ helper'[g].waker = 0
                                    /\ helper'[g].wakes = 1
C27_WakeAfterFirstEnqueue ==
    [] C27_AtFirstWake /\ [] C27_AfterFirstWake /\ [][C27_Steps]_vars
\* a refill that enqueued its whole batch, at least two Blocks, and woke once
C27_Witness ==
    \E h \in Helpers :
        /\ helper[h].pc = "store"
        /\ Len(helper[h].out) = QUEUE_SIZE /\ QUEUE_SIZE >= 2
        /\ helper[h].wakes = 1
        /\ \E t \in Tasks : pc[t] = "woken"

\* C28: in a refill that won the CAS the cursor advance and every enqueue
\* happen while `state` is true; `state` is stored false only by the winner,
\* after its enqueue loop ended (the whole batch pushed, or a push refused);
\* a winner that enqueued nothing keeps its waker until it has released
\* `state`, and wakes it only then.
C28_UnderFlag ==
    cursor' # cursor \/ Len(queue') > Len(queue)
    => /\ state /\ state'
       /\ \E h \in Helpers : helper[h].won /\ helper'[h] # helper[h]
C28_Release ==
    state /\ ~state'
    => \E h \in Helpers :
        /\ helper[h].won /\ helper'[h] # helper[h]
        /\ helper[h].failed \/ Len(helper[h].out) = QUEUE_SIZE
        /\ UNCHANGED <<cursor, queue, pc>>
C28_NothingEnqueued ==
    \A h \in Helpers :
        helper[h].failed /\ helper[h].out = <<>>
        => /\ helper[h].waker # 0 /\ helper[h].wakes = 0
           /\ helper[h].pc \in {"store", "wake"}
           /\ helper[h].pc = "store" <=> helper[h].won
C28_LastWake ==
    \A h \in Helpers :
        helper[h].failed /\ helper[h].out = <<>> /\ helper'[h] # helper[h]
        => IF helper[h].won
           THEN ~state' /\ pc' = pc /\ helper'[h] = [helper[h] EXCEPT !.pc = "wake", !.won = FALSE]
           ELSE pc' = Wake(pc, helper[h].waker) /\ helper'[h] = IdleHelper
C28_FlagHeldThroughRefill ==
    /\ [] C28_NothingEnqueued
    /\ [][C28_UnderFlag /\ C28_Release /\ C28_LastWake]_vars
\* a winner whose first push was refused has released `state` and is about
\* to wake its waker
C28_Witness ==
    \E h \in Helpers :
        /\ helper[h].failed /\ helper[h].out = <<>>
        /\ helper[h].pc = "wake" /\ ~state
        /\ pc[helper[h].waker] = "pending"

\* C29: a Block pushed into the queue is popped by at most one poll and
\* installed into at most one thread's BLOCK: the queued Blocks are pairwise
\* different, none of them is in a cache and none has served an item, no two
\* caches hold the same Block, and the poll that pops a Block takes it out of
\* the queue and installs it on its own thread only.
C29_OnePlace ==
    /\ \A i, j \in 1..Len(queue) : i # j => queue[i].array # queue[j].array
    /\ \A i \in 1..Len(queue) :
          /\ \A th \in Threads :
                BLOCK[th] # <<>> => BLOCK[th][1].array # queue[i].array
          /\ \A k \in DOMAIN queue[i].array : queue[i].array[k] \notin delivered
    /\ \A th, o \in Threads :
          th # o /\ BLOCK[th] # <<>> /\ BLOCK[o] # <<>>
          => BLOCK[th][1].array # BLOCK[o][1].array
C29_Pop ==
    Len(queue') < Len(queue)
    => /\ queue' = Tail(queue)
       /\ \E th \in Threads :
             /\ BLOCK'[th] # <<>> /\ BLOCK'[th][1].array = Head(queue).array
             /\ \A o \in Threads \ {th} : BLOCK'[o] = BLOCK[o]
       /\ \E t \in Tasks :
             /\ pc'[t] = "done" /\ pc[t] # "done"
             /\ \A u \in Tasks \ {t} : pc'[u] = pc[u]
C29_BlockInOnePlace == [] C29_OnePlace /\ [][C29_Pop]_vars
\* the two Blocks of one refill are cached by two threads while the Blocks
\* of the next refill are queued
C29_Witness ==
    /\ \E th, o \in Threads :
          /\ th # o /\ BLOCK[th] # <<>> /\ BLOCK[o] # <<>>
          /\ BlockCursors(BLOCK[th][1]) = BlockCursors(BLOCK[o][1])
    /\ queue # <<>>

\* C30: for every batch index n in 0..QUEUE_SIZE-1 and slot offset i in
\* 0..SIZE-1 the number n*SIZE+i does not overflow the u16 and is different
\* for different (n, i); Token::id has the cursor in its high 32 bits and
\* this number in the next 16, so different (cursor, n, i) give different
\* ids, whatever cd() returned.
C30_NoOverflow ==
    \A k \in 1..Len(ided) :
        /\ ided[k].token.ident = ided[k].n * SIZE + ided[k].i
        /\ ided[k].token.ident < U16
        /\ ided[k].id[1] = ided[k].cursor
        /\ ided[k].id[2] \div (U8 * U8) = ided[k].token.ident
C30_IdsDistinct ==
    \A k, m \in 1..Len(ided) :
        /\ <<ided[k].n, ided[k].i>> # <<ided[m].n, ided[m].i>>
           => ided[k].token.ident # ided[m].token.ident
        /\ <<ided[k].cursor, ided[k].n, ided[k].i>> # <<ided[m].cursor, ided[m].n, ided[m].i>>
           => ided[k].id # ided[m].id
C30_IdInjective == C30_NoOverflow /\ C30_IdsDistinct
\* the last slot of the last batch (the largest number, U16 - 1) and the
\* first slot of the batch before it, same cursor, same cd()
C30_Witness ==
    /\ Len(ided) = 2
    /\ ided[1].n = QUEUE_SIZE - 1 /\ ided[1].i = SIZE - 1
    /\ ided[1].token.ident = QUEUE_SIZE * SIZE - 1
    /\ ided[2].cursor = ided[1].cursor /\ ided[2].n # ided[1].n /\ ided[2].i = 0
    /\ ided[1].id[2] % (U8 * U8) = ided[2].id[2] % (U8 * U8)

\* C24: the serial strings returned by TimeSerialer::build in one process are
\* pairwise distinct, under any interleaving of the builds and of the
\* clean-up thread, builds of the same suffix in the same second included.
C24_SerialsDistinct ==
    \A a, b \in Builds :
        a # b /\ build[a].pc = "done" /\ build[b].pc = "done"
        => build[a].serial # build[b].serial

\* C31: the cursor cell is written only by the compare_exchange of the supply
\* thread that holds `state`: every other step (polls, pops, the threads that
\* lost the CAS on `state`) leaves it unchanged, so what the winner loaded is
\* still in the cell and its compare_exchange succeeds on the first attempt.
C31_LoadedIsCurrent ==
    \A h \in Helpers :
        helper[h].pc \in {"next", "cascur"}
        => helper[h].won /\ state /\ helper[h].prev = cursor
C31_Writes ==
    /\ cursor' # cursor
       => \E h \in Helpers :
             /\ helper[h].won /\ helper[h].pc = "cascur" /\ state
             /\ cursor' = helper[h].next
             /\ helper'[h].pc = "shuffle"
    /\ \A h \in Helpers :
          helper[h].pc = "cascur" /\ helper'[h] # helper[h]
          => helper'[h].pc = "shuffle" /\ cursor' = helper[h].next
C31_CursorWrittenByWinner == [] C31_LoadedIsCurrent /\ [][C31_Writes]_vars
\* the second refill has advanced the cursor while a thread that lost the
\* CAS on `state` is still about
C31_Witness ==
    /\ Len(refills) >= 2
    /\ \E h, g \in Helpers :
          /\ helper[h].pc = "shuffle" /\ helper[h].next = cursor
          /\ g # h /\ helper[g].pc = "wake" /\ ~helper[g].failed

\* C32: a next_token call that dispensed an item from a Block with k >= 2
\* items left leaves the same Block, with k - 1 left, in the cache of its
\* thread; a call on a thread whose cache has items left dispenses the next
\* slot of the cached Block, pops nothing from the queue, spawns nothing and
\* does not suspend.
C32_Dispensed ==
    ndelivered' > ndelivered
    => \E th \in Threads :
          LET source == IF queue' # queue THEN Head(queue) ELSE BLOCK[th][1] IN
          /\ BLOCK'[th] # BLOCK[th]
          /\ \A o \in Threads \ {th} : BLOCK'[o] = BLOCK[o]
          /\ delivered' = delivered \cup {source.array[source.index]}
          /\ size_hint(source) >= 2
             => /\ BLOCK'[th] = <<[source EXCEPT !.index = @ + 1]>>
                /\ size_hint(BLOCK'[th][1]) = size_hint(source) - 1
C32_FromCache ==
    \A t \in Tasks, th \in Threads :
        /\ Call(t, th)
        /\ borrow[th] = 0
        /\ BLOCK[th] # <<>> /\ size_hint(BLOCK[th][1]) >= 1
        => /\ pc'[t] = "done"
           /\ queue' = queue /\ helper' = helper
           /\ delivered' = delivered \cup {BLOCK[th][1].array[BLOCK[th][1].index]}
           /\ BLOCK'[th] = <<[BLOCK[th][1] EXCEPT !.index = @ + 1]>>
C32_CachedBlockServes == [][C32_Dispensed /\ C32_FromCache]_vars
\* two Tokens were returned and only one Block was ever popped: the second
\* came from the cache
C32_Witness ==
    /\ Len(refills) = 1 /\ ndelivered = 2
    /\ Len(queue) = QUEUE_SIZE - 1
    /\ \E h \in Helpers : helper[h].pc = "store" /\ Len(helper[h].out) = QUEUE_SIZE
    /\ \E th \in Threads : BLOCK[th] # <<>> /\ BLOCK[th][1].index = 2

\* C33: `state` goes from true to false only by the supply thread that took
\* it from false to true, and, with no panic and the clock advancing, every
\* thread that sets it true eventually sets it false.  The clock of the model
\* stops at MaxClock: a Cursor::next waiting for the second after it is the
\* one wait that does not end.
C33_Holder == state <=> \E h \in Helpers : InRefill(h)
C33_Step ==
    /\ ~state /\ state'
       => \E h \in Helpers :
             /\ ~InRefill(h) /\ helper[h].pc = "cas"
             /\ helper'[h].won /\ helper'[h].waker = helper[h].waker
    /\ state /\ ~state'
       => \E h \in Helpers :
             /\ InRefill(h) /\ helper'[h] # helper[h]
             /\ \A g \in Helpers : ~helper'[g].won
C33_ReleasedByHolder ==
    /\ [] C33_Holder
    /\ [][C33_Step]_vars
    /\ state ~> (~state \/ ClockStopped)
\* two refills have taken `state` and given it back
C33_Witness == ~state /\ Len(refills) >= 2 /\ Len(queue) >= 1

\* C34: every Block in the queue was constructed with a cursor that the cell
\* already held: its cursor is a refill's and at most the cell's value; a
\* refill pushes only after its compare_exchange stored its cursor, and all
\* the Blocks it pushes carry that one cursor.
C34_Queued ==
    \A i \in 1..Len(queue) :
        \E c \in 0..U32_MAX :
            /\ BlockCursors(queue[i]) = {c}
            /\ c <= cursor
            /\ \E k \in 1..Len(refills) : refills[k] = c
C34_OneCursor ==
    \A h \in Helpers :
        /\ helper[h].pc \in {"shuffle", "push", "wake1"}
           => helper[h].next = cursor /\ refills[Len(refills)] = helper[h].next
        /\ \A i \in 1..Len(helper[h].out) :
              BlockCursors(helper[h].out[i]) = {helper[h].next}
C34_Push ==
    Len(queue') > Len(queue)
    => /\ BlockCursors(queue'[Len(queue')]) = {cursor}
       /\ cursor' = cursor
       /\ Len(refills) >= 1 /\ refills[Len(refills)] = cursor
C34_QueuedCursorStored ==
    [] C34_Queued /\ [] C34_OneCursor /\ [][C34_Push]_vars
\* the second refill has pushed a Block of its cursor and is about to push
\* the next one
C34_Witness ==
    /\ Len(refills) >= 2
    /\ \E h \in Helpers :
          /\ helper[h].pc = "push" /\ Len(helper[h].out) >= 1
          /\ queue # <<>> /\ BlockCursors(queue[Len(queue)]) = {cursor}

\* C35: a suspended caller is never woken while the only running refill is
\* still waiting in Cursor::next with nothing enqueued: each wake comes with
\* a Block enqueued since the caller's Pending, so a caller does not go
\* through poll / spawn / wake cycles during one refill.
C35_WaitingInNext ==
    \E h \in Helpers :
        /\ InRefill(h) /\ helper[h].pc = "next" /\ helper[h].out = <<>>
        /\ ~CursorNextReturns(helper[h].prev, CursorNew)
C35_NoWakeBeforeEnqueue ==
    [][\A t \in Tasks :
          pc[t] = "pending" /\ pc'[t] = "woken"
          => ~(C35_WaitingInNext /\ queue = <<>>)]_vars

\* C36: the cursor cell never exceeds the current clock reading and two
\* refills never share a second: the refills' cursors are readings of
\* strictly increasing seconds, at most ELEMENT_CAP items carry one cursor,
\* and a refill that starts in the second of the previous one waits in
\* Cursor::next for the next tick, enqueuing nothing before it.
C36_OnePerSecond ==
    /\ cursor <= TIMESTAMP + clock
    /\ \A i \in 1..Len(refills) : refills[i] <= TIMESTAMP + clock
    /\ \A i, j \in 1..Len(refills) : i < j => refills[i] + 1 <= refills[j]
    /\ \A c \in 0..(TIMESTAMP + clock) :
          /\ Cardinality({x \in delivered : x.cursor = c}) <= QUEUE_SIZE * SIZE
          /\ \A x \in delivered : x.ident \in 0..(QUEUE_SIZE * SIZE - 1)
          /\ Cardinality({b.array : b \in {a \in AllBlocks : BlockCursors(a) = {c}}})
                <= QUEUE_SIZE
    /\ \A h \in Helpers :
          helper[h].pc \in {"cascur", "shuffle", "push", "wake1"}
          => helper[h].prev < helper[h].next /\ helper[h].next <= TIMESTAMP + clock
C36_Waits ==
    \A h \in Helpers :
        At(h, "next") /\ helper[h].prev = TIMESTAMP + clock
        => /\ ~ENABLED HNext(h)
           /\ helper[h].out = <<>>
           /\ \A i \in 1..Len(queue) : BlockCursors(queue[i]) # {helper[h].prev + 1}
C36_RefillsSecondApart == C36_OnePerSecond /\ C36_Waits
\* a refill that started in the second of the previous one is waiting, the
\* queue empty
C36_Witness ==
    /\ Len(refills) >= 1 /\ queue = <<>>
    /\ \E h \in Helpers :
          /\ helper[h].pc = "next"
          /\ helper[h].prev = refills[Len(refills)]
          /\ helper[h].prev = TIMESTAMP + clock

\* C37: TicketSerialer::build tries up to retry_times candidates, each one
\* second later than the one before; it returns the first candidate that
\* inspect reports as not duplicated, and MaxRetry only after retry_times
\* candidates were inspected and rejected as duplicates.
C37_TriesRetryTimes ==
    \A k \in Tickets :
        LET r == ticket[k] IN
        /\ Len(r.inspected) <= r.retry_times
        /\ \A i \in 1..Len(r.inspected) :
              r.inspected[i] = r.datetime + (i - 1)
        /\ r.pc = "done" /\ r.result[1] = "Ok" =>
              r.result[2] = TicketOutput(r.inspected[Len(r.inspected)])
        /\ r.pc = "done" /\ r.result = <<"MaxRetry">> =>
              Len(r.inspected) = r.retry_times

\* C38: the idents of the IncrSerialers whose build succeeds are strictly
\* increasing in the order the engine lock was taken; when the engine returns
\* UNINITIALIZED, or a value not greater than the last ident, `last` is left
\* unchanged and build returns Err(UNINITIALIZED), or Err(FAILED).
C38_Succeeds(c) ==
    /\ incr[c].pc \in {"suffix", "made", "done"}
    /\ incr[c].ident \notin {UNINITIALIZED, FAILED}

C38_Increasing ==
    \A i, j \in 1..Len(granted) :
        i < j /\ C38_Succeeds(granted[i]) /\ C38_Succeeds(granted[j])
            => incr[granted[i]].ident < incr[granted[j]].ident

C38_Results ==
    \A c \in Calls :
        LET r == incr[c] IN
        /\ r.pc \in {"called", "suffix", "made", "done"} /\ engine.holder # c
              => r.pc # "called"
        /\ r.pc \in {"suffix", "made", "done"} =>
              r.ident = (IF r.new = UNINITIALIZED THEN UNINITIALIZED
                         ELSE IF r.new <= r.old THEN FAILED ELSE r.new)
        /\ r.pc = "done" =>
              r.result = (IF r.new = UNINITIALIZED THEN <<"Err", UNINITIALIZED>>
                          ELSE IF r.new <= r.old THEN <<"Err", FAILED>>
                          ELSE <<"Ok", IncrOutput(r.new, r.suffix)>>)
        /\ r.pc = "done" /\ r.result[1] = "Ok" => r.result[2][1] = r.ident

C38_Store ==
    \A c \in Calls :
        incr[c].pc = "called" /\ incr'[c].pc # "called" =>
            /\ incr[c].old = last
            /\ incr[c].new = UNINITIALIZED \/ incr[c].new <= incr[c].old
                  => last' = last
            /\ incr[c].new # UNINITIALIZED /\ incr[c].new > incr[c].old
                  => last' = incr[c].new

C38_IdentsIncrease ==
    [] (C38_Increasing /\ C38_Results) /\ [][C38_Store]_vars

\* the second call in lock order was built first, both succeeded
C38_Witness ==
    \E a, b \in Calls :
        /\ granted = <<a, b>>
        /\ incr[a].pc = "made" /\ incr[b].pc = "done"
        /\ incr[b].result[1] = "Ok"
        /\ C38_Succeeds(a)
        /\ incr[a].ident < incr[b].ident

\* C39: TimeSerialer returns a serial only after finding it absent from the
\* slot under the write lock and inserting it in the same critical section;
\* the clean-up removes only entries whose timestamp is below the median of
\* the distinct timestamps, does nothing when the slot holds at most one
\* distinct timestamp, and never removes an entry of the newest timestamp.
C39_Returns ==
    \A b \in Builds :
        build[b].pc # "done" /\ build'[b].pc = "done" =>
            /\ build[b].pc = "write"
            /\ ~contains_key(SLOT, build[b].serial)
            /\ <<build[b].serial, build[b].now>> \in SLOT'
            /\ build'[b].serial = build[b].serial

\* t is in the lower half of the distinct timestamps T
C39_BelowMedian(t, T) == 2 * Cardinality({x \in T : x <= t}) <= Cardinality(T)

C39_Cleans ==
    cleaners' < cleaners =>
        LET T == {e[2] : e \in SLOT} IN
        /\ SLOT' \subseteq SLOT
        /\ \A e \in SLOT \ SLOT' : C39_BelowMedian(e[2], T)
        /\ Cardinality(T) <= 1 => SLOT' = SLOT
        /\ \A e \in SLOT : (\A x \in T : x <= e[2]) => e \in SLOT'

C39_InsertedThenCleaned == [][C39_Returns /\ C39_Cleans]_vars

\* a serial returned in an earlier second was cleaned out of the slot, one
\* of the newest second is kept
C39_Witness ==
    \E a, b \in Builds :
        /\ build[a].pc = "done" /\ build[b].pc = "done"
        /\ build[a].now < build[b].now
        /\ ~contains_key(SLOT, build[a].serial)
        /\ <<build[b].serial, build[b].now>> \in SLOT

====
